---------------------------- MODULE Spec2Model ----------------------------
(***************************************************************************)
(* localsend-go: the prepare-upload / upload protocol engine.              *)
(*                                                                         *)
(*   internal/handlers/receive.go  PrepareReceive, ReceiveHandler          *)
(*   internal/handlers/send.go     SendFileToOtherDevicePrepare,           *)
(*                                 uploadFile, SendFile                    *)
(*                                                                         *)
(* Every inbound request runs in a goroutine of its own (net/http), so the *)
(* responder is a set of request records, each with a program position,    *)
(* over the package-level variables of receive.go and a small file system. *)
(***************************************************************************)
EXTENDS Integers, Sequences, FiniteSets, TLC

\* ------------------------------------------------------------- bounds
MaxHandlers == 2    \* requests the responder handles at the same time
MaxRequests == 3    \* requests the responder sees in all
MaxBody     == 2    \* longest request body, in bytes
MaxFiles    == 2    \* regular files under the root the initiator sends

\* receive.go:131 allocates a 2*1024*1024 byte buffer; the model keeps the
\* buffer small, and a Read may return fewer bytes than the buffer holds, so
\* that a body takes one read or several.
BufferSize == 2

\* ------------------------------------------------------------- values
FileIds   == {"a.txt", "b"}
FileNames == {"a.txt", "b"}
Previews  == {"hi"}
Entries   == [fileName : FileNames, preview : Previews]
Manifests == UNION {[S -> Entries] : S \in SUBSET FileIds}

\* what a client may put in the query of an upload request
QSessions == {"", "session-1"}
QFileIds  == {""} \cup FileIds
QTokens   == {"", "token-a.txt"}

NoFile == 0          \* no inode / no open file
Hole   == 0          \* byte of a sparse region of a file
NoStatus == 0        \* the handler has written no status line

Min(a, b) == IF a < b THEN a ELSE b
Max(a, b) == IF a < b THEN b ELSE a

\* The bytes of body number k of length len: pairwise distinct, so that a
\* dropped, duplicated or reordered byte changes the sequence.
BodyOf(k, len) == [i \in 1..len |-> 10 * k + i]

\* A handshake that hands out an empty token.
TokenBlank(fileID) == ""

\* fmt.Sprintf("session-%d", n) and fmt.Sprintf("token-%s", fileID)
SessionIDOf(n) == "session-" \o ToString(n)
TokenOf(fileID) == "token-" \o fileID

\* A test that takes every filename for a text file.
HasAnySuffix(s, suffix) == TRUE

\* strings.HasSuffix(s, suffix)
HasSuffix(s, suffix) ==
    /\ Len(s) >= Len(suffix)
    /\ SubSeq(s, Len(s) - Len(suffix) + 1, Len(s)) = suffix

\* filepath.Join("uploads", fileName) and filepath.Dir of the result, for the
\* flat file names of FileNames.
JoinUploads(fileName) == "uploads/" \o fileName
DirOf(filePath) == "uploads"

VARIABLES
    sessionIDCounter,   \* receive.go:22
    sessionMutex,       \* receive.go:23: 0 when free, else the holder
    fileNames,          \* receive.go:24: fileID -> filename
    clipboard,          \* what the system clipboard holds
    dirs,               \* directories that exist
    dirent,             \* path -> inode, the files that exist
    inodes,             \* inode -> content
    issued,             \* history: the session ids in the order they were taken
    granted,            \* history: what each handshake declared and was given
    nRequests,          \* requests that have arrived from clients
    h,                  \* the requests being handled, one goroutine each
    snd,                \* the SendFile operation of the initiator
    cancelHandlers      \* the registry of cancel handles, by session id

vars == <<sessionIDCounter, sessionMutex, fileNames, clipboard, dirs, dirent,
          inodes, issued, granted, nRequests, h, snd, cancelHandlers>>

rcvGlobals == <<sessionIDCounter, sessionMutex, fileNames, clipboard, issued,
                granted>>
fsVars == <<dirs, dirent, inodes>>
sndVars == <<snd, cancelHandlers>>
others == <<nRequests, snd, cancelHandlers>>

Handlers == 1..MaxHandlers
InodeIds == 1..(Cardinality(FileNames) + MaxHandlers)

\* A handler slot: the request's inputs, the locals of PrepareReceive
\* (manifest .. clip) and of ReceiveHandler (fileID .. removed), and what was
\* answered.
IdleH ==
    [kind |-> "none", peer |-> "", pc |-> "idle", status |-> NoStatus,
     decodable |-> FALSE, manifest |-> <<>>, todo |-> {}, tmp |-> 0,
     sessionID |-> "", files |-> <<>>, clip |-> <<>>,
     fileID |-> "", token |-> "", body |-> <<>>, conn |-> "open",
     ctxDone |-> FALSE, fileName |-> "", filePath |-> "", fd |-> NoFile,
     off |-> 0, rd |-> 0, gpc |-> "none", done |-> "empty",
     end |-> "", created |-> FALSE]

\* The initiator before SendFile is called.
IdleSend ==
    [pc |-> "idle", tree |-> <<>>, i |-> 0, manifest |-> <<>>,
     hsStatus |-> 0, hsDecodable |-> FALSE, hsBody |-> <<>>, sessionID |-> "", files |-> <<>>,
     ctxDone |-> FALSE, slot |-> 0, doErr |-> FALSE, upStatus |-> 0,
     uploadErr |-> FALSE, upErr |-> "", err |-> "",
     requested |-> <<>>, finished |-> 0, failedAt |-> 0,
     cancelSent |-> -1, cancelFinished |-> -1]

InitResponder ==
    /\ sessionIDCounter = 0
    /\ sessionMutex = 0
    /\ fileNames = <<>>
    /\ clipboard = ""
    /\ dirs = {}
    /\ dirent = <<>>
    /\ inodes = [i \in InodeIds |-> <<>>]
    /\ issued = <<>>
    /\ granted = {}
    /\ nRequests = 0
    /\ h = [s \in Handlers |-> IdleH]
    /\ cancelHandlers = {}

\* The responder alone, serving the clients of the network.
Init ==
    /\ InitResponder
    /\ snd = IdleSend

\* A handler that has returned ends its goroutine before anything else
\* happens: a state with pc = "returned" is the moment of the return.
Returning == \E s \in Handlers : h[s].pc = "returned"

\* The handler in slot s, or SendFile, is at the given place.
At(s, pc) == h[s].pc = pc /\ ~Returning
SendAt(pc) == snd.pc = pc /\ ~Returning

\* A request is handed to the lowest free goroutine slot.
FreeSlot(s) ==
    /\ At(s, "idle")
    /\ \A t \in Handlers : t < s => h[t].pc # "idle"

\* ------------------------------------------------------ PrepareReceive
\* A handler that goes on after a failed decode.
PrepareDecodeUnchecked(s, peer, decodable, m) ==
    /\ FreeSlot(s)
    /\ h' = [h EXCEPT ![s] = [IdleH EXCEPT !.kind = "prepare",
                 !.peer = peer, !.decodable = decodable, !.manifest = m,
                 !.pc = "lock"]]
    /\ UNCHANGED <<rcvGlobals, fsVars>>

\* receive.go:27-33: a prepare-upload request reaches the responder and its
\* body is decoded into the manifest m; a body that does not decode
\* (decodable = FALSE) is answered with 400
PrepareDecode(s, peer, decodable, m) ==
    /\ FreeSlot(s)
    /\ h' = [h EXCEPT ![s] = [IdleH EXCEPT !.kind = "prepare",
                 !.peer = peer, !.decodable = decodable, !.manifest = m,
                 !.pc = IF decodable THEN "lock" ELSE "returned",
                 !.status = IF decodable THEN 0 ELSE 400]]
    /\ UNCHANGED <<rcvGlobals, fsVars>>

\* Lock that never waits: the counter is taken without mutual exclusion.
MutexIgnored(s) == TRUE

\* sync.Mutex: Lock returns only when no goroutine holds the mutex
MutexFree(s) == sessionMutex = 0

\* receive.go:37
PrepareLock(s) ==
    /\ At(s, "lock")
    /\ MutexFree(s)
    /\ sessionMutex' = s
    /\ h' = [h EXCEPT ![s].pc = "load"]
    /\ UNCHANGED <<sessionIDCounter, fileNames, clipboard, issued, granted,
                   fsVars, others>>

\* receive.go:38, the read half of sessionIDCounter++
PrepareLoad(s) ==
    /\ At(s, "load")
    /\ h' = [h EXCEPT ![s].pc = "store", ![s].tmp = sessionIDCounter]
    /\ UNCHANGED <<rcvGlobals, fsVars, others>>

\* receive.go:38, the write half of sessionIDCounter++
PrepareStore(s) ==
    /\ At(s, "store")
    /\ sessionIDCounter' = h[s].tmp + 1
    /\ h' = [h EXCEPT ![s].pc = "sprintf", ![s].tmp = 0]
    /\ UNCHANGED <<sessionMutex, fileNames, clipboard, issued, granted,
                   fsVars, others>>

\* receive.go:39
PrepareSessionID(s) ==
    /\ At(s, "sprintf")
    /\ h' = [h EXCEPT ![s].pc = "unlock",
                      ![s].sessionID = SessionIDOf(sessionIDCounter)]
    /\ issued' = Append(issued, [n |-> sessionIDCounter,
                                 id |-> SessionIDOf(sessionIDCounter)])
    /\ UNCHANGED <<sessionIDCounter, sessionMutex, fileNames, clipboard,
                   granted, fsVars, others>>

\* receive.go:40-42
PrepareUnlock(s) ==
    /\ At(s, "unlock")
    /\ sessionMutex' = 0
    /\ h' = [h EXCEPT ![s].pc = "range", ![s].todo = DOMAIN h[s].manifest]
    /\ UNCHANGED <<sessionIDCounter, fileNames, clipboard, issued, granted,
                   fsVars, others>>

\* receive.go:43-54, one iteration of the range over req.Files (Go iterates a
\* map in an unspecified order)
PrepareRange(s) ==
    /\ At(s, "range")
    /\ h[s].todo # {}
    /\ \E fileID \in h[s].todo :
          LET fileInfo == h[s].manifest[fileID]
              txt == HasSuffix(fileInfo.fileName, ".txt")
          IN
          /\ h' = [h EXCEPT
                     ![s].files = (fileID :> TokenOf(fileID)) @@ @,
                     ![s].todo = @ \ {fileID},
                     ![s].clip = IF txt THEN Append(@, fileInfo.preview) ELSE @]
          /\ fileNames' = (fileID :> fileInfo.fileName) @@ fileNames
          /\ clipboard' = IF txt THEN fileInfo.preview ELSE clipboard
          /\ granted' = granted \cup
                {[sessionID |-> h[s].sessionID, fileID |-> fileID,
                  token |-> TokenOf(fileID), fileName |-> fileInfo.fileName]}
    /\ UNCHANGED <<sessionIDCounter, sessionMutex, issued, fsVars, others>>

\* receive.go:56-61
PrepareRespond(s) ==
    /\ At(s, "range")
    /\ h[s].todo = {}
    /\ h' = [h EXCEPT ![s].pc = "returned", ![s].status = 200]
    /\ UNCHANGED <<rcvGlobals, fsVars, others>>


\* ------------------------------------------------------- file system
\* The inodes some directory entry or some open file refers to.
Referenced(de, hh) ==
    {de[q] : q \in DOMAIN de} \cup {hh[t].fd : t \in Handlers}

\* An inode nothing refers to is freed.
Collect(ino, de, hh) ==
    [i \in InodeIds |-> IF i \in Referenced(de, hh) THEN ino[i] ELSE <<>>]

FreeInode == CHOOSE i \in InodeIds :
    /\ i \notin Referenced(dirent, h)
    /\ \A j \in InodeIds : j < i => j \in Referenced(dirent, h)

\* The content of a file after writing buf at offset off.
WriteAt(content, off, buf) ==
    [i \in 1..Max(Len(content), off + Len(buf)) |->
        IF i > off /\ i <= off + Len(buf) THEN buf[i - off]
        ELSE IF i <= Len(content) THEN content[i]
        ELSE Hole]

\* os.Remove(path): the directory entry goes, the inode stays while open.
Unlink(de, path) == [q \in DOMAIN de \ {path} |-> de[q]]

Exists(path) == path \in DOMAIN dirent
ContentOf(path) == inodes[dirent[path]]

\* ------------------------------------------------------ ReceiveHandler
\* A validation that forgets the token.
ParamsPresentNoToken(sessionID, fileID, token) ==
    sessionID # "" /\ fileID # ""

\* receive.go:70: the request parameters are all present
ParamsPresent(sessionID, fileID, token) ==
    sessionID # "" /\ fileID # "" /\ token # ""

\* receive.go:76-77: fileName, ok := fileNames[fileID]
Known(fileID) == fileID \in DOMAIN fileNames

\* receive.go:64-80: an upload request reaches the responder; the query is
\* validated and the file name looked up
ReceiveValidate(s, peer, sid, fid, tok, body) ==
    /\ FreeSlot(s)
    /\ LET r == [IdleH EXCEPT !.kind = "upload", !.peer = peer,
                    !.sessionID = sid, !.fileID = fid, !.token = tok,
                    !.body = body]
       IN
       IF ~ParamsPresent(sid, fid, tok) \/ ~Known(fid)
          THEN h' = [h EXCEPT ![s] = [r EXCEPT !.pc = "returned",
                        !.status = 400, !.end = "rejected"]]
          ELSE h' = [h EXCEPT ![s] = [r EXCEPT !.pc = "mkdir",
                        !.fileName = fileNames[fid],
                        !.filePath = JoinUploads(fileNames[fid])]]
    /\ UNCHANGED <<rcvGlobals, fsVars>>

\* receive.go:85-91: os.MkdirAll succeeds on a directory that exists and may
\* fail to create one that does not
ReceiveMkdir(s) ==
    /\ At(s, "mkdir")
    /\ \E ok \in BOOLEAN :
          /\ (DirOf(h[s].filePath) \in dirs => ok)
          /\ IF ok
                THEN /\ dirs' = dirs \cup {DirOf(h[s].filePath)}
                     /\ h' = [h EXCEPT ![s].pc = "create"]
                ELSE /\ dirs' = dirs
                     /\ h' = [h EXCEPT ![s].pc = "returned",
                                 ![s].status = 500, ![s].end = "failed"]
    /\ UNCHANGED <<rcvGlobals, dirent, inodes, others>>

\* receive.go:93-134: os.Create truncates the file when it exists; the copy
\* goroutine starts with the file open
ReceiveCreate(s) ==
    /\ At(s, "create")
    /\ \E ok \in BOOLEAN :
          IF ok
             THEN LET path == h[s].filePath
                      ino == IF Exists(path) THEN dirent[path] ELSE FreeInode
                  IN
                  /\ dirent' = (path :> ino) @@ dirent
                  /\ inodes' = [inodes EXCEPT ![ino] = <<>>]
                  /\ h' = [h EXCEPT ![s].pc = "select", ![s].fd = ino,
                              ![s].created = TRUE, ![s].gpc = "copy"]
             ELSE /\ UNCHANGED <<dirent, inodes>>
                  /\ h' = [h EXCEPT ![s].pc = "returned", ![s].status = 500,
                              ![s].end = "failed"]
    /\ UNCHANGED <<rcvGlobals, dirs, others>>

\* receive.go:139-146: io.EOF is no error; the loop ends when Read returns no
\* bytes
LoopEnds(n, eof) == n = 0

\* receive.go:137-155, one iteration of the copy loop: r.Body.Read(buffer),
\* then file.Write(buffer[:n]). Once every byte has been read, Read returns
\* (0, io.EOF); a connection that broke before that gives a read error;
\* otherwise Read returns between 1 and len(buffer) bytes, the last of them
\* with or without io.EOF. A failing Write may have written a part of the
\* chunk. Read touches nothing but the request, so the iteration is one step.
GoCopy(s) ==
    /\ At(s, "select")
    /\ h[s].gpc = "copy"
    /\ LET rem == Len(h[s].body) - h[s].rd IN
       IF rem = 0
          THEN /\ h' = [h EXCEPT ![s].gpc = "end", ![s].done = "nil"]
               /\ inodes' = inodes
          ELSE IF h[s].conn = "aborted"
          THEN /\ h' = [h EXCEPT ![s].gpc = "end", ![s].done = "read"]
               /\ inodes' = inodes
          ELSE \E n \in 1..Min(BufferSize, rem), eof \in BOOLEAN :
                  /\ eof => n = rem
                  /\ IF LoopEnds(n, eof)
                        THEN /\ h' = [h EXCEPT ![s].rd = @ + n,
                                        ![s].gpc = "end", ![s].done = "nil"]
                             /\ inodes' = inodes
                        ELSE \E k \in 0..n :
                           LET buffer == SubSeq(h[s].body, h[s].rd + 1,
                                                h[s].rd + n)
                           IN
                           /\ inodes' = [inodes EXCEPT ![h[s].fd] =
                                 WriteAt(@, h[s].off, SubSeq(buffer, 1, k))]
                           /\ IF k = n
                                 THEN h' = [h EXCEPT ![s].rd = @ + n,
                                               ![s].off = @ + k]
                                 ELSE h' = [h EXCEPT ![s].rd = @ + n,
                                               ![s].off = @ + k,
                                               ![s].gpc = "end",
                                               ![s].done = "write"]
    /\ UNCHANGED <<rcvGlobals, dirs, dirent, others>>

\* receive.go:159-167 and 180-181: the select takes the result of the copy
\* goroutine; nil is answered with 200 and the deferred file.Close runs
SelectDone(s) ==
    /\ At(s, "select")
    /\ h[s].done # "empty"
    /\ IF h[s].done = "nil"
          THEN LET hh == [h EXCEPT ![s].pc = "returned", ![s].status = 200,
                              ![s].end = "ok", ![s].fd = NoFile,
                              ![s].done = "empty"]
               IN /\ h' = hh
                  /\ inodes' = Collect(inodes, dirent, hh)
          ELSE /\ h' = [h EXCEPT ![s].pc = "remove", ![s].status = 500,
                           ![s].end = h[s].done, ![s].done = "empty"]
               /\ inodes' = inodes
    /\ UNCHANGED <<rcvGlobals, dirs, dirent, others>>

\* An error branch that leaves the file where it is.
KeepOnError(de, path) == de

\* what the error branch of the select does to the directory: os.Remove
RemoveOnError(de, path) == Unlink(de, path)

\* receive.go:164-166: delete the incomplete file, return (file.Close)
ReceiveRemove(s) ==
    /\ At(s, "remove")
    /\ LET hh == [h EXCEPT ![s].pc = "returned", ![s].fd = NoFile]
           de == RemoveOnError(dirent, h[s].filePath)
       IN /\ h' = hh
          /\ dirent' = de
          /\ inodes' = Collect(inodes, de, hh)
    /\ UNCHANGED <<rcvGlobals, dirs, others>>

\* The status line the responder sends for a request whose handler has
\* returned: the one the handler wrote (receive.go:31, 71, 78, 88, 96, 162,
\* 181), and 200 when it wrote none, as net/http answers for a handler that
\* returns without WriteHeader. The cancellation branch (receive.go:168-177)
\* returns that way: conn.CloseNotify() closes nothing.
Answered(r) == IF r.status = NoStatus THEN 200 ELSE r.status

\* what the cancellation branch of the select does to the directory
RemoveOnCancel(de, path) == Unlink(de, path)

\* receive.go:168-177: the request context is done; the file is deleted and
\* the handler returns without writing a status. The deferred file.Close
\* makes every later Write of the copy goroutine fail.
SelectCancelled(s) ==
    /\ At(s, "select")
    /\ h[s].ctxDone
    /\ LET hh == [h EXCEPT ![s].pc = "returned", ![s].fd = NoFile,
                     ![s].end = "cancelled", ![s].gpc = "end"]
           de == RemoveOnCancel(dirent, h[s].filePath)
       IN /\ h' = hh
          /\ dirent' = de
          /\ inodes' = Collect(inodes, de, hh)
    /\ UNCHANGED <<rcvGlobals, dirs, others>>


\* ------------------------------------------------- the clients' side
\* Some client on the network sends a prepare-upload request.
ClientPrepare(s) ==
    /\ nRequests < MaxRequests
    /\ nRequests' = nRequests + 1
    /\ \E d \in BOOLEAN, m \in Manifests :
          /\ (~d => m = <<>>)
          /\ PrepareDecode(s, "client", d, m)
    /\ UNCHANGED sndVars

\* Some client on the network sends an upload request.
ClientUpload(s) ==
    /\ nRequests < MaxRequests
    /\ nRequests' = nRequests + 1
    /\ \E sid \in QSessions, fid \in QFileIds, tok \in QTokens,
          len \in 0..MaxBody :
          ReceiveValidate(s, "client", sid, fid, tok,
                          BodyOf(nRequests + 1, len))
    /\ UNCHANGED sndVars

\* The connection of an upload breaks (the client went away, the network
\* failed) while the body is being read.
ConnAbort(s) ==
    /\ At(s, "select")
    /\ h[s].conn = "open"
    /\ h' = [h EXCEPT ![s].conn = "aborted"]
    /\ UNCHANGED <<rcvGlobals, fsVars, others>>

\* net/http cancels the request context once it sees the connection closed.
CtxCancel(s) ==
    /\ At(s, "select")
    /\ h[s].conn = "aborted"
    /\ ~h[s].ctxDone
    /\ h' = [h EXCEPT ![s].ctxDone = TRUE]
    /\ UNCHANGED <<rcvGlobals, fsVars, others>>

\* fileNames is a Go map written at receive.go:48 and read at receive.go:76
\* with no lock. When a write overlaps another write, or the read of an
\* arriving upload request, the runtime may go on as if the accesses had come
\* one after the other (the steps above) or stop the process with a fatal
\* error ("concurrent map writes", "concurrent map read and map write"):
\* every goroutine ends where it is and no request is served any more.
ConcurrentMapAccess(s) ==
    /\ At(s, "range")
    /\ h[s].todo # {}
    /\ \/ \E t \in Handlers \ {s} : h[t].pc = "range" /\ h[t].todo # {}
       \/ /\ nRequests < MaxRequests
          /\ \E t \in Handlers : h[t].pc = "idle"
    /\ h' = [t \in Handlers |-> [h[t] EXCEPT !.pc = "crashed"]]
    /\ UNCHANGED <<rcvGlobals, fsVars, others>>

\* ------------------------------------------------------ the initiator
\* What filepath.Walk visits under the root, in its order: the root directory,
\* then up to MaxFiles regular files, file number i holding BodyOf(i, len).
DirEntry == [isDir |-> TRUE, name |-> "d", content |-> <<>>]
FileEntries(i) ==
    {[isDir |-> FALSE, name |-> nm, content |-> BodyOf(i, len)] :
        nm \in FileNames, len \in 0..MaxBody}
Trees ==
    UNION {{<<DirEntry>> \o fs :
               fs \in {f \in [1..n -> UNION {FileEntries(i) : i \in 1..n}] :
                          \A i \in 1..n : f[i] \in FileEntries(i)}} :
           n \in 0..MaxFiles}

\* A walk function without the test for directories.
EveryEntry(e) == TRUE

\* send.go:32: !info.IsDir()
IsFile(e) == ~e.isDir
NumFiles(tree) == Cardinality({i \in DOMAIN tree : IsFile(tree[i])})

\* filepath.Ext: the suffix that starts at the last dot, "" without a dot
Ext(name) ==
    LET dots == {i \in 1..Len(name) : SubSeq(name, i, i) = "."} IN
    IF dots = {} THEN ""
    ELSE SubSeq(name, CHOOSE i \in dots : \A j \in dots : j <= i, Len(name))

\* sha256.CalculateSHA256: a digest that tells contents apart
Sha256(content) == <<"sha256", content>>

\* send.go:37-43
FileMetadata(e) ==
    [id |-> e.name, fileName |-> e.name, size |-> Len(e.content),
     fileType |-> Ext(e.name), sha256 |-> Sha256(e.content), preview |-> ""]

\* send.go:27-47: the walk of SendFileToOtherDevicePrepare fills the map
\* files, keyed by the base name, in visiting order
RECURSIVE BuildManifest(_, _)
BuildManifest(tree, files) ==
    IF tree = <<>> THEN files
    ELSE LET e == Head(tree) IN
         BuildManifest(Tail(tree),
             IF IsFile(e) THEN (e.name :> FileMetadata(e)) @@ files
                          ELSE files)

\* send.go:89-108: what SendFileToOtherDevicePrepare makes of the answer
PrepareOutcome(status, decodable) ==
    IF status # 200
       THEN CASE status = 204 -> "finished (No file transfer needed)"
              [] status = 400 -> "invalid body"
              [] status = 403 -> "rejected"
              [] status = 500 -> "unknown error by receiver"
              [] OTHER -> "failed to send metadata"
       ELSE IF ~decodable THEN "error decoding response JSON"
       ELSE ""

\* send.go:213-225: what uploadFile makes of the answer
UploadOutcome(status) ==
    IF status # 200
       THEN CASE status = 400 -> "missing parameters"
              [] status = 403 -> "invalid token or IP address"
              [] status = 409 -> "blocked by another session"
              [] status = 500 -> "unknown error by receiver"
              [] OTHER -> "file upload failed"
       ELSE ""

\* The statuses a peer other than this responder may answer a handshake with.
PeerStatuses == {204, 400, 403, 500, 404}

\* The registry of cancel handles (RegisterCancelHandler,
\* UnregisterCancelHandler, and the cancel endpoint that looks a handle up).
RegisterCancelHandler(reg, sessionID) == reg \cup {sessionID}
UnregisterCancelHandler(reg, sessionID) == reg \ {sessionID}

\* A SendFile that leaves its handle in the registry.
DeferredNothing(reg, sessionID) == reg

\* send.go:253: defer UnregisterCancelHandler(response.SessionID)
Deferred(reg, sessionID) == UnregisterCancelHandler(reg, sessionID)

sndFrame == <<rcvGlobals, fsVars, nRequests>>

\* A SendFile that registers the cancel handle before it looks at the error
\* of the handshake.
ReturnRegistered(e) ==
    /\ snd' = [snd EXCEPT !.pc = "returned", !.err = e]
    /\ cancelHandlers' = RegisterCancelHandler(cancelHandlers, snd.sessionID)

\* SendFile returns before the cancel handle is registered (send.go:239, 243).
ReturnEarly(e) ==
    /\ snd' = [snd EXCEPT !.pc = "returned", !.err = e]
    /\ UNCHANGED cancelHandlers

\* SendFile returns after line 253: the deferred calls run (send.go:248, 253).
ReturnDeferred(e) ==
    /\ snd' = [snd EXCEPT !.pc = "returned", !.err = e, !.ctxDone = TRUE]
    /\ cancelHandlers' = Deferred(cancelHandlers, snd.sessionID)

\* send.go:234-240: a device is picked, or the picker fails
SelectDevice ==
    /\ SendAt("start")
    /\ \E ok \in BOOLEAN :
          IF ok THEN /\ snd' = [snd EXCEPT !.pc = "build"]
                     /\ UNCHANGED cancelHandlers
                ELSE ReturnEarly("select device")
    /\ UNCHANGED <<sndFrame, h>>

\* send.go:25-50 (called at 241): the manifest is built, or the walk or the
\* hashing fails and no manifest is returned
PrepareWalk ==
    /\ SendAt("build")
    /\ \E ok \in BOOLEAN :
          IF ok THEN /\ snd' = [snd EXCEPT !.pc = "post",
                           !.manifest = BuildManifest(snd.tree, <<>>)]
                     /\ UNCHANGED cancelHandlers
                ELSE ReturnEarly("error walking the path")
    /\ UNCHANGED <<sndFrame, h>>

\* send.go:52-86: the manifest is posted. The request fails in transport, or
\* this responder takes it, or another peer answers with a status of its own
\* or with a 200 whose body does not decode.
PreparePost ==
    /\ SendAt("post")
    /\ \/ /\ ReturnEarly("error sending POST request")
          /\ UNCHANGED <<sndFrame, h>>
       \/ /\ \E s \in Handlers :
                /\ PrepareDecode(s, "sender", TRUE, snd.manifest)
                /\ snd' = [snd EXCEPT !.pc = "await", !.slot = s]
          /\ UNCHANGED <<nRequests, cancelHandlers>>
       \/ /\ \E st \in PeerStatuses \cup {200} :
                snd' = [snd EXCEPT !.pc = "response", !.hsStatus = st,
                                   !.hsDecodable = FALSE]
          /\ UNCHANGED <<sndFrame, h, cancelHandlers>>

\* send.go:89-111 and 241-244: the answer to the handshake is interpreted
PrepareResponse ==
    /\ SendAt("response")
    /\ LET e == PrepareOutcome(snd.hsStatus, snd.hsDecodable) IN
       IF e # ""
          THEN ReturnEarly(e)
          ELSE /\ snd' = [snd EXCEPT !.pc = "register",
                             !.sessionID = snd.hsBody.sessionID,
                             !.files = snd.hsBody.files]
               /\ UNCHANGED cancelHandlers
    /\ UNCHANGED <<sndFrame, h>>

\* send.go:246-253
Register ==
    /\ SendAt("register")
    /\ cancelHandlers' = RegisterCancelHandler(cancelHandlers, snd.sessionID)
    /\ snd' = [snd EXCEPT !.pc = "walk", !.i = 1]
    /\ UNCHANGED <<sndFrame, h>>

\* send.go:256-265 and 273-277: the walk visits the next entry, or is over
WalkVisit ==
    /\ SendAt("walk")
    /\ IF snd.i > Len(snd.tree)
          THEN ReturnDeferred("")
          ELSE \E ok \in BOOLEAN :
             LET e == snd.tree[snd.i] IN
             IF ~ok THEN ReturnDeferred("error walking the path")
             ELSE IF e.isDir
                THEN /\ snd' = [snd EXCEPT !.i = @ + 1]
                     /\ UNCHANGED cancelHandlers
             ELSE IF e.name \notin DOMAIN snd.files
                THEN ReturnDeferred("token not found for file")
             ELSE /\ snd' = [snd EXCEPT !.pc = "open"]
                  /\ UNCHANGED cancelHandlers
    /\ UNCHANGED <<sndFrame, h>>

\* uploadFile returns e for the file the walk is at.
UploadReturns(r, e) ==
    [r EXCEPT !.pc = "uploaded", !.upErr = e, !.finished = @ + 1,
              !.failedAt = IF e # "" /\ @ = 0 THEN r.i ELSE @]

\* send.go:114-127: os.Open and file.Stat
UploadOpen ==
    /\ SendAt("open")
    /\ \E ok \in BOOLEAN :
          snd' = IF ok THEN [snd EXCEPT !.pc = "do"]
                       ELSE UploadReturns(snd, "error opening file")
    /\ UNCHANGED <<sndFrame, h, cancelHandlers>>

\* A request built without the context of the operation.
RequestCtxNone == FALSE

\* send.go:187: the request carries ctx, so client.Do sends nothing once ctx
\* is done
RequestCtxDone == snd.ctxDone

\* The copy goroutine (send.go:163-171) reports an error on uploadErr when the
\* pipe is closed under it: possible when client.Do returns with a part of a
\* non-empty file not yet taken from the pipe.
CopyMayFail(r, allRead) == Len(r.tree[r.i].content) > 0 /\ ~allRead

\* send.go:158-196: the copy goroutine starts and client.Do sends the request,
\* unless ctx is done already or no connection is made
UploadDo ==
    /\ SendAt("do")
    /\ LET e == snd.tree[snd.i] IN
       \/ /\ RequestCtxDone
          /\ \E ue \in BOOLEAN :
                /\ ue => CopyMayFail(snd, FALSE)
                /\ snd' = [snd EXCEPT !.pc = "select", !.doErr = TRUE,
                                      !.uploadErr = ue]
          /\ UNCHANGED <<sndFrame, h, cancelHandlers>>
       \/ /\ ~RequestCtxDone
          /\ \E ue \in BOOLEAN :
                /\ ue => CopyMayFail(snd, FALSE)
                /\ snd' = [snd EXCEPT !.pc = "select", !.doErr = TRUE,
                                      !.uploadErr = ue]
          /\ UNCHANGED <<sndFrame, h, cancelHandlers>>
       \/ /\ ~RequestCtxDone
          /\ \E s \in Handlers :
                /\ ReceiveValidate(s, "sender", snd.sessionID, e.name,
                                   snd.files[e.name], e.content)
                /\ snd' = [snd EXCEPT !.pc = "inflight", !.slot = s,
                              !.requested = Append(@, snd.i)]
          /\ UNCHANGED <<nRequests, cancelHandlers>>

\* The request of the initiator that slot s is handling, if it still waits.
Awaited(s) ==
    /\ snd.pc \in {"await", "inflight"}
    /\ snd.slot = s
    /\ h[s].peer = "sender"

\* The answer of the responder reaches the initiator: client.Post (send.go:83)
\* or client.Do (send.go:196) returns the response.
Deliver(s) ==
    /\ h[s].pc = "returned"
    /\ Awaited(s)
    /\ h[s].conn = "open"
    /\ h' = [h EXCEPT ![s] = IdleH]
    /\ IF snd.pc = "await"
          THEN snd' = [snd EXCEPT !.pc = "response",
                          !.hsStatus = h[s].status, !.hsDecodable = TRUE,
                          !.hsBody = [sessionID |-> h[s].sessionID,
                                      files |-> h[s].files]]
          ELSE \E ue \in BOOLEAN :
                  /\ ue => CopyMayFail(snd, h[s].rd = Len(h[s].body))
                  /\ snd' = [snd EXCEPT !.pc = "select", !.doErr = FALSE,
                                !.upStatus = Answered(h[s]),
                                !.uploadErr = ue]
    /\ UNCHANGED <<sndFrame, cancelHandlers>>

\* client.Do (send.go:196) returns an error: the connection broke.
UploadAbort ==
    /\ SendAt("inflight")
    /\ h[snd.slot].conn = "aborted" \/ h[snd.slot].pc = "idle"
    /\ \E ue \in BOOLEAN :
          /\ ue => CopyMayFail(snd, FALSE)
          /\ ~ue => ~snd.uploadErr
          /\ snd' = [snd EXCEPT !.pc = "select", !.doErr = TRUE,
                                !.uploadErr = ue]
    /\ UNCHANGED <<sndFrame, h, cancelHandlers>>

\* client.Do (send.go:196) returns an error because ctx is done: the
\* transport gives the request up and closes the connection.
TransportCancel ==
    /\ SendAt("inflight")
    /\ snd.ctxDone
    /\ h[snd.slot].pc \notin {"idle", "returned"}
    /\ h[snd.slot].conn = "open"
    /\ h' = [h EXCEPT ![snd.slot].conn = "aborted"]
    /\ \E ue \in BOOLEAN :
          /\ ue => CopyMayFail(snd, FALSE)
          /\ snd' = [snd EXCEPT !.pc = "select", !.doErr = TRUE,
                                !.uploadErr = ue]
    /\ UNCHANGED <<sndFrame, cancelHandlers>>

\* send.go:166-169: io.Copy fails reading the file; the pipe ends early, the
\* body is shorter than the declared length and the transport breaks the
\* connection.
CopyError ==
    /\ SendAt("inflight")
    /\ h[snd.slot].pc \notin {"idle", "returned"}
    /\ h[snd.slot].conn = "open"
    /\ h[snd.slot].rd < Len(h[snd.slot].body)
    /\ h' = [h EXCEPT ![snd.slot].conn = "aborted"]
    /\ snd' = [snd EXCEPT !.uploadErr = TRUE]
    /\ UNCHANGED <<sndFrame, cancelHandlers>>

\* A select whose uploadErr case goes on to the status check whatever it
\* received.
UploadSelectFallsThrough ==
    /\ SendAt("select")
    /\ \/ /\ snd.ctxDone
          /\ snd' = UploadReturns(snd, "Transfer cancelled")
       \/ /\ snd.uploadErr
          /\ snd' = [snd EXCEPT !.pc = "status"]
       \/ /\ ~snd.ctxDone /\ ~snd.uploadErr
          /\ snd' = IF snd.doErr
                       THEN UploadReturns(snd,
                                "error sending file upload request")
                       ELSE [snd EXCEPT !.pc = "status"]
    /\ UNCHANGED <<sndFrame, h, cancelHandlers>>

\* send.go:198-210: the non-blocking select after client.Do. A ready case is
\* taken, any of them when several are ready; default only when none is.
UploadSelect ==
    /\ SendAt("select")
    /\ \/ /\ snd.ctxDone
          /\ snd' = UploadReturns(snd, "Transfer cancelled")
       \/ /\ snd.uploadErr
          /\ snd' = UploadReturns(snd, "Upload error")
       \/ /\ ~snd.ctxDone /\ ~snd.uploadErr
          /\ snd' = IF snd.doErr
                       THEN UploadReturns(snd,
                                "error sending file upload request")
                       ELSE [snd EXCEPT !.pc = "status"]
    /\ UNCHANGED <<sndFrame, h, cancelHandlers>>

\* send.go:212-229
UploadStatus ==
    /\ SendAt("status")
    /\ snd' = UploadReturns(snd, UploadOutcome(snd.upStatus))
    /\ UNCHANGED <<sndFrame, h, cancelHandlers>>

\* A walk function that swallows the error of uploadFile.
WalkGoesOn(e) == FALSE

\* send.go:267: if err != nil
WalkStops(e) == e # ""

\* send.go:266-275: the walk function returns what uploadFile returned;
\* filepath.Walk stops at the first error and SendFile returns it
WalkAfterUpload ==
    /\ SendAt("uploaded")
    /\ IF WalkStops(snd.upErr)
          THEN ReturnDeferred("error uploading file")
          ELSE /\ snd' = [snd EXCEPT !.pc = "walk", !.i = @ + 1,
                             !.slot = 0, !.doErr = FALSE, !.upStatus = 0,
                             !.uploadErr = FALSE, !.upErr = ""]
               /\ UNCHANGED cancelHandlers
    /\ UNCHANGED <<sndFrame, h>>

\* The cancel endpoint looks the session up in the registry and calls its
\* handle: ctx is done from now on.
CancelRequest ==
    /\ ~Returning
    /\ snd.sessionID \in cancelHandlers
    /\ ~snd.ctxDone
    /\ snd' = [snd EXCEPT !.ctxDone = TRUE,
                          !.cancelSent = Len(snd.requested),
                          !.cancelFinished = snd.finished]
    /\ UNCHANGED <<sndFrame, h, cancelHandlers>>


\* ------------------------------------------------------ specifications
\* The goroutine of a request ends when its handler has returned and nobody
\* waits for the answer any more.
Finish(s) ==
    /\ h[s].pc = "returned"
    /\ ~(Awaited(s) /\ h[s].conn = "open")
    /\ h' = [h EXCEPT ![s] = IdleH]
    /\ UNCHANGED <<rcvGlobals, fsVars, others>>

\* The responder and the clients of the network.
Next ==
    \/ \E s \in Handlers : ClientPrepare(s)
    \/ \E s \in Handlers : ClientUpload(s)
    \/ \E s \in Handlers : PrepareLock(s)
    \/ \E s \in Handlers : PrepareLoad(s)
    \/ \E s \in Handlers : PrepareStore(s)
    \/ \E s \in Handlers : PrepareSessionID(s)
    \/ \E s \in Handlers : PrepareUnlock(s)
    \/ \E s \in Handlers : PrepareRange(s)
    \/ \E s \in Handlers : PrepareRespond(s)
    \/ \E s \in Handlers : ReceiveMkdir(s)
    \/ \E s \in Handlers : ReceiveCreate(s)
    \/ \E s \in Handlers : GoCopy(s)
    \/ \E s \in Handlers : SelectDone(s)
    \/ \E s \in Handlers : ReceiveRemove(s)
    \/ \E s \in Handlers : SelectCancelled(s)
    \/ \E s \in Handlers : ConnAbort(s)
    \/ \E s \in Handlers : CtxCancel(s)
    \/ \E s \in Handlers : ConcurrentMapAccess(s)
    \/ \E s \in Handlers : Finish(s)

Spec == Init /\ [][Next]_vars

\* One SendFile operation against the responder.
InitSend ==
    /\ InitResponder
    /\ \E tree \in Trees : snd = [IdleSend EXCEPT !.pc = "start", !.tree = tree]

NextSend ==
    \/ SelectDevice
    \/ PrepareWalk
    \/ PreparePost
    \/ PrepareResponse
    \/ Register
    \/ WalkVisit
    \/ UploadOpen
    \/ UploadDo
    \/ UploadAbort
    \/ TransportCancel
    \/ CopyError
    \/ UploadSelect
    \/ UploadStatus
    \/ WalkAfterUpload
    \/ CancelRequest
    \/ \E s \in Handlers : PrepareLock(s)
    \/ \E s \in Handlers : PrepareLoad(s)
    \/ \E s \in Handlers : PrepareStore(s)
    \/ \E s \in Handlers : PrepareSessionID(s)
    \/ \E s \in Handlers : PrepareUnlock(s)
    \/ \E s \in Handlers : PrepareRange(s)
    \/ \E s \in Handlers : PrepareRespond(s)
    \/ \E s \in Handlers : ReceiveMkdir(s)
    \/ \E s \in Handlers : ReceiveCreate(s)
    \/ \E s \in Handlers : GoCopy(s)
    \/ \E s \in Handlers : SelectDone(s)
    \/ \E s \in Handlers : ReceiveRemove(s)
    \/ \E s \in Handlers : SelectCancelled(s)
    \/ \E s \in Handlers : ConnAbort(s)
    \/ \E s \in Handlers : CtxCancel(s)
    \/ \E s \in Handlers : Deliver(s)
    \/ \E s \in Handlers : Finish(s)

SpecSend == InitSend /\ [][NextSend]_vars

\* ================================================================ claims
Uploads == {s \in Handlers : h[s].kind = "upload"}
Prepares == {s \in Handlers : h[s].kind = "prepare"}
Rejection == 400..499

\* The token PrepareReceive issued for the pair (sessionID, fileID), if any.
IssuedFor(sessionID, fileID, token) ==
    \E g \in granted :
        g.sessionID = sessionID /\ g.fileID = fileID /\ g.token = token

\* Some handshake declared fileID.
Declared(fileID) == \E g \in granted : g.fileID = fileID

\* C1: an upload request whose token is not the token issued for its
\* (sessionId, fileId) pair never creates or truncates a destination file and
\* is answered with a 4xx status.
C1_ForeignTokenRejected ==
    \A s \in Uploads :
        ~IssuedFor(h[s].sessionID, h[s].fileID, h[s].token) =>
            /\ ~h[s].created
            /\ h[s].pc = "returned" => Answered(h[s]) \in Rejection

\* C2: the session ids handed out are pairwise distinct and strictly
\* increasing in the order in which the counter was taken.
C2_SessionIdsUniqueIncreasing ==
    \A i, j \in DOMAIN issued :
        i < j => issued[i].n < issued[j].n /\ issued[i].id # issued[j].id

\* Two handshakes are in flight at once and both hold a session id.
C2_Witness ==
    \E s, t \in Prepares :
        s # t /\ h[s].sessionID # "" /\ h[t].sessionID # ""

\* C3: when ReceiveHandler returns after a read error, a write error or the
\* cancellation of the request context, the destination file is gone and the
\* status answered for the request is not 200.
C3_AbortDeletesPartialFile ==
    \A s \in Uploads :
        (h[s].pc = "returned" /\ h[s].end \in {"read", "write", "cancelled"}) =>
            /\ ~Exists(h[s].filePath)
            /\ Answered(h[s]) # 200

\* The upload the initiator had in flight when its operation was cancelled.
Raced(s) ==
    /\ s \in Uploads
    /\ h[s].peer = "sender"
    /\ snd.cancelSent > snd.cancelFinished

\* C4: when the cancellation of SendFile meets an upload in flight, the
\* responder answers 200 only with the whole file at the destination, and
\* once SendFile and the handler have both ended every file in the upload
\* directory is one of the sender's files, whole.
C4_CancelRaceLeavesNoPartialFile ==
    /\ \A s \in Handlers :
          (Raced(s) /\ h[s].pc = "returned" /\ Answered(h[s]) = 200) =>
              /\ Exists(h[s].filePath)
              /\ ContentOf(h[s].filePath) = h[s].body
    /\ (/\ snd.cancelSent > snd.cancelFinished
        /\ snd.pc = "returned"
        /\ \A s \in Handlers : h[s].pc = "idle") =>
          \A path \in DOMAIN dirent :
              \E i \in DOMAIN snd.tree :
                  /\ IsFile(snd.tree[i])
                  /\ JoinUploads(snd.tree[i].name) = path
                  /\ ContentOf(path) = snd.tree[i].content

\* C5: once the operation is cancelled with k uploads finished, none in
\* flight and files left to send, no further upload request is sent and
\* SendFile returns an error.
C5_CancelBetweenFilesStopsRequests ==
    (/\ snd.cancelSent >= 0
     /\ snd.cancelSent = snd.cancelFinished
     /\ snd.cancelFinished < NumFiles(snd.tree)) =>
        /\ Len(snd.requested) = snd.cancelSent
        /\ snd.pc = "returned" => snd.err # ""

\* SendFile has returned after a cancellation that came with the first file
\* uploaded and answered 200 and the second one not yet requested.
C5_Witness ==
    /\ snd.pc = "returned"
    /\ snd.cancelSent = 1
    /\ snd.cancelFinished = 1
    /\ NumFiles(snd.tree) = 2
    /\ snd.failedAt = 3
    /\ snd.err # ""
    /\ Exists(JoinUploads(snd.tree[2].name))

\* The upload ended with the whole body read, no error and no cancellation.
Clean(r) ==
    /\ r.pc = "returned"
    /\ r.created
    /\ r.rd = Len(r.body)
    /\ r.end \notin {"read", "write", "cancelled"}
    /\ ~r.ctxDone

\* C6: an upload that completes cleanly is answered 200 and leaves a
\* destination file whose content is the request body.
C6_CleanUploadStoresBody ==
    \A s \in Uploads :
        Clean(h[s]) =>
            /\ Answered(h[s]) = 200
            /\ Exists(h[s].filePath)
            /\ ContentOf(h[s].filePath) = h[s].body

\* The query of the request lacks a parameter or names a file id that no
\* handshake declared.
FailsValidation(r) ==
    r.sessionID = "" \/ r.fileID = "" \/ r.token = "" \/ ~Declared(r.fileID)

\* C7: the step that takes in an upload request failing validation answers
\* it with a 4xx status and leaves files and directories as they were.
C7_InvalidUploadCreatesNothing ==
    [][\A s \in Handlers :
          (h[s].pc = "idle" /\ h'[s].kind = "upload" /\ FailsValidation(h'[s]))
              => /\ h'[s].pc = "returned"
                 /\ h'[s].status \in Rejection
                 /\ ~h'[s].created
                 /\ UNCHANGED fsVars]_vars

\* An upload request naming an undeclared file id was rejected while the
\* table held another id.
C7_Witness ==
    \E s \in Uploads :
        /\ h[s].pc = "returned"
        /\ h[s].sessionID # "" /\ h[s].fileID # "" /\ h[s].token # ""
        /\ ~Declared(h[s].fileID)
        /\ DOMAIN fileNames # {}
        /\ h[s].status = 400

\* C8: the step that takes in an undecodable prepare-upload request answers
\* 400 and changes neither the session counter, the file name table, the
\* tokens issued nor the clipboard.
C8_BadManifestChangesNothing ==
    [][\A s \in Handlers :
          (h[s].pc = "idle" /\ h'[s].kind = "prepare" /\ ~h'[s].decodable)
              => /\ h'[s].pc = "returned"
                 /\ h'[s].status = 400
                 /\ h'[s].sessionID = "" /\ h'[s].files = <<>>
                 /\ UNCHANGED <<sessionIDCounter, sessionMutex, fileNames,
                                clipboard, issued, granted>>]_vars

\* An undecodable manifest was answered after a session had been allocated.
C8_Witness ==
    \E s \in Prepares :
        /\ ~h[s].decodable
        /\ h[s].pc = "returned"
        /\ h[s].status = 400
        /\ sessionIDCounter > 0

\* C9: the cancel handle is in the registry under the session id whenever an
\* upload request has been sent and SendFile is still running, and the
\* registry is empty once SendFile has returned.
C9_CancelHandleRegisteredThenRemoved ==
    /\ (Len(snd.requested) > 0 /\ snd.pc # "returned") =>
          snd.sessionID \in cancelHandlers
    /\ snd.pc = "returned" => cancelHandlers = {}

\* SendFile has returned after a cancellation that came with a request sent.
C9_Witness ==
    /\ snd.pc = "returned"
    /\ snd.sessionID # ""
    /\ snd.cancelSent > 0
    /\ snd.err # ""

\* C10: once uploadFile has returned an error for a file, the walk goes no
\* further: SendFile is about to return or has returned, with an error, and
\* no request was sent for a later file.
C10_FirstFailureEndsWalk ==
    snd.failedAt # 0 =>
        /\ snd.pc \in {"uploaded", "returned"}
        /\ snd.pc = "returned" => snd.err # ""
        /\ \A j \in DOMAIN snd.requested : snd.requested[j] <= snd.failedAt

\* The responder answered 500 for the first of two files and SendFile has
\* returned without a request for the second.
C10_Witness ==
    /\ snd.pc = "returned"
    /\ NumFiles(snd.tree) = 2
    /\ snd.failedAt = 2
    /\ snd.upStatus = 500
    /\ snd.requested = <<2>>
    /\ snd.err # ""

\* SendFileToOtherDevicePrepare has returned for a handshake that was answered.
HandshakeAnswered == snd.hsStatus # 0 /\ snd.pc # "response"

\* C11: a 204 answer to the handshake ends the operation with an outcome that
\* is not an error, every other status but 200 ends it with an error, and a
\* decoded response is held only after a 200.
C11_NoContentIsNotAnError ==
    HandshakeAnswered =>
        /\ snd.hsStatus = 204 => (snd.pc = "returned" /\ snd.err = "")
        /\ snd.hsStatus \notin {200, 204} =>
              (snd.pc = "returned" /\ snd.err # "")
        /\ snd.sessionID # "" => (snd.hsStatus = 200 /\ snd.hsDecodable)

\* The handshake was answered with something other than a decodable 200.
BadAnswer == snd.hsStatus # 0 /\ (snd.hsStatus # 200 \/ ~snd.hsDecodable)

\* The prepare-upload request failed in transport.
PostFailed == snd.pc = "returned" /\ snd.err = "error sending POST request"

\* C12: once the handshake has ended in anything other than a decodable 200,
\* SendFile does nothing but return: no step sends a request of the initiator
\* to the responder, no upload is requested and the registry stays empty.
C12_FailedHandshakeEndsSendFile ==
    [][(BadAnswer \/ PostFailed) =>
          /\ snd'.pc = "returned"
          /\ snd'.err # ""
          /\ snd'.requested = <<>>
          /\ cancelHandlers' = {}
          /\ \A s \in Handlers :
                h'[s].peer = "sender" => h[s].peer = "sender"]_vars

\* SendFile has returned after a 200 whose body did not decode.
C12_Witness ==
    /\ snd.pc = "returned"
    /\ snd.hsStatus = 200
    /\ ~snd.hsDecodable
    /\ snd.err = "error decoding response JSON"

\* C13: an accepted handshake answers with a token for each file id of its
\* manifest and for no other id; the same file id is given the same token in
\* every session; and an upload request bearing the token issued for its
\* session and file id passes validation whenever it comes.
C13_TokensPerDeclaredFile ==
    /\ \A s \in Prepares :
          (h[s].pc = "returned" /\ h[s].status = 200) =>
              /\ DOMAIN h[s].files = DOMAIN h[s].manifest
              /\ \A id \in DOMAIN h[s].files : h[s].files[id] # ""
    /\ \A g1, g2 \in granted : g1.fileID = g2.fileID => g1.token = g2.token
    /\ \A s \in Uploads :
          IssuedFor(h[s].sessionID, h[s].fileID, h[s].token) =>
              h[s].end # "rejected"

\* An upload bearing the issued token has passed validation after an earlier
\* upload with the same session, file id and token was stored.
C13_Witness ==
    /\ DOMAIN fileNames = {"a.txt"}
    /\ \E s \in Uploads :
          /\ h[s].pc = "create"
          /\ IssuedFor(h[s].sessionID, h[s].fileID, h[s].token)
          /\ Exists(h[s].filePath)
          /\ ContentOf(h[s].filePath) # <<>>
          /\ \A t \in Handlers \ {s} : h[t].pc = "idle"

\* The entries of the manifest of handshake s that the range has been through
\* and that name a .txt file with a non-empty preview.
TextEntries(s) ==
    {id \in DOMAIN h[s].manifest \ h[s].todo :
        /\ Ext(h[s].manifest[id].fileName) = ".txt"
        /\ h[s].manifest[id].preview # ""}

\* C14: while PrepareReceive goes through the manifest and when it answers,
\* the non-empty payloads it has written to the clipboard are the previews of
\* the .txt entries done so far, one write for each entry; at the answer all
\* entries are done.
C14_PreviewWrittenOnce ==
    \A s \in Prepares :
        (h[s].decodable /\ h[s].pc \in {"range", "returned"}) =>
            /\ h[s].pc = "returned" => h[s].todo = {}
            /\ \A p \in Previews \cup {h[s].clip[i] : i \in DOMAIN h[s].clip} :
                  p # "" =>
                     Cardinality({i \in DOMAIN h[s].clip : h[s].clip[i] = p})
                       = Cardinality({id \in TextEntries(s) :
                                         h[s].manifest[id].preview = p})

\* A handshake declaring a .txt file and another file has been answered, the
\* preview is on the clipboard, and no upload request has ever arrived.
C14_Witness ==
    /\ nRequests = 1
    /\ dirs = {}
    /\ clipboard = "hi"
    /\ \E s \in Prepares :
          /\ h[s].pc = "returned"
          /\ h[s].status = 200
          /\ DOMAIN h[s].manifest = FileIds
          /\ Cardinality(TextEntries(s)) = 1
          /\ h[s].clip = <<"hi">>

\* The positions of the regular files in what the walk visits.
RegularFiles(tree) == {i \in DOMAIN tree : ~tree[i].isDir}

\* The manifest m has one entry for each basename among the regular files of
\* tree and no other entry, and the entry of a basename holds the metadata of
\* the file of that name visited last.
OnePerBasename(tree, m) ==
    /\ DOMAIN m = {tree[i].name : i \in RegularFiles(tree)}
    /\ \A i \in RegularFiles(tree) :
          (\A j \in RegularFiles(tree) : tree[j].name = tree[i].name => j <= i)
              => /\ m[tree[i].name].id = tree[i].name
                 /\ m[tree[i].name].fileName = tree[i].name
                 /\ m[tree[i].name].size = Len(tree[i].content)
                 /\ m[tree[i].name].sha256 = Sha256(tree[i].content)

\* C15: the step in which SendFileToOtherDevicePrepare finishes its walk
\* leaves a manifest with exactly one entry per distinct basename of the
\* regular files, the one of the file visited last, and none for a directory.
C15_ManifestOnePerBasename ==
    [][(snd.pc = "build" /\ snd'.pc = "post") =>
          OnePerBasename(snd.tree, snd'.manifest)]_vars

\* A manifest was built from two files of the same basename and different
\* sizes.
C15_Witness ==
    /\ snd.pc = "post"
    /\ Len(snd.tree) = 3
    /\ snd.tree[2].name = snd.tree[3].name
    /\ Len(snd.tree[2].content) # Len(snd.tree[3].content)
    /\ DOMAIN snd.manifest = {snd.tree[3].name}
    /\ snd.manifest[snd.tree[3].name].size = Len(snd.tree[3].content)

\* How a transfer that reached the chunk loop may end short of completion.
Aborted == {"read", "write", "cancelled"}

\* How a request may end before the chunk loop starts.
EndedEarly == {"rejected", "failed"}

\* The chunk loop of the request in slot s has started.
Receiving(s) == h[s].created /\ h[s].gpc # "none"

\* C16: a request ends as aborted only after its chunk loop has started, and
\* is returned from with its destination file deleted; a request that ends
\* before the chunk loop starts has created no file and its last step leaves
\* the directory as it was; and no step deletes a file other than the return
\* of an aborted transfer.
C16_AbortedOnlyFromReceiving ==
    [][/\ \A s \in Uploads :
             /\ h[s].end \in Aborted => Receiving(s)
             /\ h[s].end \in EndedEarly => ~h[s].created /\ h[s].gpc = "none"
       /\ \A s \in Handlers :
             /\ (h[s].end = "" /\ h'[s].end \in EndedEarly) =>
                   UNCHANGED <<dirent, inodes>>
             /\ (h[s].pc # "returned" /\ h'[s].pc = "returned"
                   /\ h'[s].end \in Aborted) =>
                   /\ Receiving(s)
                   /\ h[s].filePath \notin DOMAIN dirent'
       /\ (DOMAIN dirent \ DOMAIN dirent' # {}) =>
             \E s \in Uploads :
                 /\ Receiving(s)
                 /\ h'[s].pc = "returned"
                 /\ h'[s].end \in Aborted
                 /\ DOMAIN dirent \ DOMAIN dirent' = {h[s].filePath}]_vars

\* A transfer has ended on a read error after a part of the body was written,
\* and its file is gone.
C16_Witness ==
    \E s \in Uploads :
        /\ h[s].pc = "returned"
        /\ h[s].end = "read"
        /\ h[s].off > 0
        /\ ~Exists(h[s].filePath)

\* The upload requests of the initiator that the responder is handling.
SenderUploads == {s \in Uploads : h[s].peer = "sender"}

\* uploadFile is running for the entry the walk is at.
InUploadFile == snd.pc \in {"open", "do", "inflight", "select", "status"}

\* C17: the responder never handles two upload requests of one SendFile at a
\* time; while uploadFile runs for a file, uploadFile has returned for every
\* file before it in the walk order; and the requests were sent in walk
\* order, none of them for a file after the current one.
C17_OneUploadAtATime ==
    /\ Cardinality(SenderUploads) <= 1
    /\ InUploadFile =>
          snd.finished =
              Cardinality({k \in RegularFiles(snd.tree) : k < snd.i})
    /\ \A j \in DOMAIN snd.requested :
          /\ snd.requested[j] <= snd.i
          /\ j > 1 => snd.requested[j - 1] < snd.requested[j]

\* The request for the second file is in flight after uploadFile has returned
\* for the first.
C17_Witness ==
    /\ snd.pc = "inflight"
    /\ snd.requested = <<2, 3>>
    /\ snd.finished = 1
    /\ Cardinality(SenderUploads) = 1

\* The places of PrepareReceive that read or write sessionIDCounter
\* (receive.go:38-39, up to the Unlock of line 40).
AtCounter(s) == h[s].pc \in {"load", "store", "sprintf", "unlock"}

\* The handshake in slot s is about to write fileNames (receive.go:48).
AtTable(s) == h[s].kind = "prepare" /\ h[s].pc = "range" /\ h[s].todo # {}

\* C18: a handshake reads and writes the session counter only while it holds
\* the session lock, so no two handshakes are at the counter together; and it
\* writes the file name table after it has released the lock.
C18_CounterLockedTableNot ==
    /\ \A s \in Handlers : AtCounter(s) => sessionMutex = s
    /\ \A s, t \in Handlers : (AtCounter(s) /\ AtCounter(t)) => s = t
    /\ \A s \in Handlers : AtTable(s) => sessionMutex # s

\* Two handshakes are about to write the entry of the same file id, with the
\* session lock free.
C18_Witness ==
    \E s, t \in Handlers :
        /\ s # t
        /\ AtTable(s)
        /\ AtTable(t)
        /\ h[s].todo \cap h[t].todo # {}
        /\ sessionMutex = 0

\* C19: an upload request that has passed the look-up of its file id is
\* written to the filename that the handshake of its own session declared
\* for that file id.
C19_DestinationFromOwnHandshake ==
    \A s \in Uploads :
        h[s].fileName # "" =>
            \A g \in granted :
                (g.sessionID = h[s].sessionID /\ g.fileID = h[s].fileID) =>
                    h[s].fileName = g.fileName

\* C20: whenever ReceiveHandler answers 200, the destination file exists and
\* holds the body of that request.
C20_AnsweredFileIsWhole ==
    \A s \in Uploads :
        (h[s].pc = "returned" /\ h[s].status = 200) =>
            /\ Exists(h[s].filePath)
            /\ ContentOf(h[s].filePath) = h[s].body

\* C21: uploadFile reaches the status check only with a response in hand, from
\* a select that found neither the cancellation signal fired nor an error of
\* the copy goroutine; every other way out of the select is the return of an
\* error, and with the signal fired the select returns an error whatever
\* client.Do returned.
C21_StatusReadOnlyWithResponse ==
    [][/\ snd.pc = "status" => ~snd.doErr
       /\ (snd.pc = "select" /\ snd'.pc # "select") =>
             /\ \/ /\ snd'.pc = "status"
                   /\ ~snd.doErr /\ ~snd.ctxDone /\ ~snd.uploadErr
                \/ /\ snd'.pc = "uploaded"
                   /\ snd'.upErr # ""
             /\ snd.ctxDone =>
                   /\ snd'.pc = "uploaded"
                   /\ snd'.upErr \in {"Transfer cancelled", "Upload error"}
                   /\ ~snd.uploadErr => snd'.upErr = "Transfer cancelled"]_vars

\* uploadFile has returned "Transfer cancelled" with the 200 of the responder
\* in hand.
C21_Witness ==
    /\ snd.pc = "uploaded"
    /\ ~snd.doErr
    /\ snd.upStatus = 200
    /\ snd.ctxDone
    /\ snd.upErr = "Transfer cancelled"

=============================================================================
